---- MODULE Spec2Model ----
(***************************************************************************)
(* Smart energy meter backend: the /meter ingestion handler (app.py), the  *)
(* /api/data query handler and the DatabaseManager store (database.py).    *)
(*                                                                         *)
(* Text is modelled as a sequence of one-character strings, so that        *)
(* str.lower(), substring search, float() and int() are computed rather    *)
(* than assumed.  Real numbers are held exactly, in thousandths.           *)
(* Time is counted in ticks of half a day.                                 *)
(***************************************************************************)
EXTENDS Integers, Sequences, FiniteSets, TLC

(* ------------------------------ bounds --------------------------------- *)

\* readings inserted in one behaviour (AUTOINCREMENT ids 1..MaxReadings)
MaxReadings == 2
\* last value of the server clock, in ticks
MaxClock == 1
\* boot_count / error_count are not incremented beyond this value
MaxCount == 1

\* ticks in one calendar day
TicksPerDay == 2
\* decimal digits kept after the point (values are in 10^-Scale)
Scale == 3

(* ------------------------------ text ----------------------------------- *)

Str0 == <<>>

UpperChars == <<"A","B","C","D","E","F","G","H","I","J","K","L","M",
                "N","O","P","Q","R","S","T","U","V","W","X","Y","Z">>
LowerChars == <<"a","b","c","d","e","f","g","h","i","j","k","l","m",
                "n","o","p","q","r","s","t","u","v","w","x","y","z">>
DigitChars == <<"0","1","2","3","4","5","6","7","8","9">>

IndexOf(c, cs) == IF \E i \in 1..Len(cs) : cs[i] = c
                  THEN CHOOSE i \in 1..Len(cs) : cs[i] = c
                  ELSE 0

\* str.lower(), one character
LowerChar(c) == IF IndexOf(c, UpperChars) > 0 THEN LowerChars[IndexOf(c, UpperChars)] ELSE c

\* str.lower()
Lower(s) == [i \in 1..Len(s) |-> LowerChar(s[i])]

\* needle in hay
Contains(hay, needle) ==
    \E i \in 0..(Len(hay) - Len(needle)) :
        \A j \in 1..Len(needle) : hay[i + j] = needle[j]

\* str.strip() of blanks, as float() and int() do before parsing
RECURSIVE LStrip(_)
LStrip(s) == IF s # <<>> /\ Head(s) = " " THEN LStrip(Tail(s)) ELSE s
RECURSIVE RStrip(_)
RStrip(s) == IF s # <<>> /\ s[Len(s)] = " " THEN RStrip(SubSeq(s, 1, Len(s) - 1)) ELSE s
Strip(s) == RStrip(LStrip(s))

IsDigit(c) == IndexOf(c, DigitChars) > 0
DigitVal(c) == IndexOf(c, DigitChars) - 1
AllDigits(s) == \A i \in 1..Len(s) : IsDigit(s[i])

RECURSIVE DigitsToNat(_)
DigitsToNat(s) == IF s = <<>> THEN 0
                  ELSE 10 * DigitsToNat(SubSeq(s, 1, Len(s) - 1)) + DigitVal(s[Len(s)])

RECURSIVE Pow10(_)
Pow10(n) == IF n = 0 THEN 1 ELSE 10 * Pow10(n - 1)

(* ------------------------------ float() -------------------------------- *)
\* A Python float is one of: nan, +inf / -inf, or a finite number n / 10^Scale.
Nan        == [k |-> "nan", n |-> 0]
Inf(neg)   == [k |-> "inf", n |-> IF neg THEN -1 ELSE 1]
Num(n)     == [k |-> "num", n |-> n]
\* float() raised ValueError
ParseErr   == [k |-> "err", n |-> 0]
\* Python None / SQL NULL
Null       == [k |-> "null", n |-> 0]

HasSign(t) == t # <<>> /\ Head(t) \in {"+", "-"}
Unsigned(t) == IF HasSign(t) THEN Tail(t) ELSE t
IsNeg(t) == t # <<>> /\ Head(t) = "-"

PointAt(u) == IndexOf(".", u)

\* digits [ "." digits ]  |  "." digits ; at least one digit
FloatUnsigned(u) ==
    LET p    == PointAt(u)
        ip   == IF p = 0 THEN u ELSE SubSeq(u, 1, p - 1)
        fp   == IF p = 0 THEN <<>> ELSE SubSeq(u, p + 1, Len(u))
        fp3  == SubSeq(fp, 1, IF Len(fp) < Scale THEN Len(fp) ELSE Scale)
    IN  IF ~AllDigits(ip) \/ ~AllDigits(fp) \/ Len(ip) + Len(fp) = 0
        THEN ParseErr
        ELSE Num(DigitsToNat(ip) * Pow10(Scale)
                 + DigitsToNat(fp3) * Pow10(Scale - Len(fp3)))

\* float(text)
ParseFloat(s) ==
    LET t == Strip(s)
        u == Unsigned(t)
        w == Lower(u)
    IN  IF w = <<"n","a","n">> THEN Nan
        ELSE IF w = <<"i","n","f">> \/ w = <<"i","n","f","i","n","i","t","y">>
             THEN Inf(IsNeg(t))
        ELSE LET r == FloatUnsigned(u)
             IN  IF r.k = "num" /\ IsNeg(t) THEN Num(0 - r.n) ELSE r

\* x < b and x > b for a float x and an integer bound b (in whole units);
\* every comparison with nan is False
FloatLt(x, b) == CASE x.k = "num" -> x.n < b * Pow10(Scale)
                   [] x.k = "inf" -> x.n < 0
                   [] OTHER       -> FALSE
FloatGt(x, b) == CASE x.k = "num" -> x.n > b * Pow10(Scale)
                   [] x.k = "inf" -> x.n > 0
                   [] OTHER       -> FALSE

(* ------------------------------ int() ---------------------------------- *)
\* A Python int has no width: it is held as sign and decimal digits
\* (no leading zeros; zero is <<"0">>).
RECURSIVE StripZeros(_)
StripZeros(d) == IF Len(d) > 1 /\ Head(d) = "0" THEN StripZeros(Tail(d)) ELSE d

IntVal(neg, digs) == [k |-> "int", neg |-> neg /\ digs # <<"0">>, digs |-> digs]
IntErr == [k |-> "err", neg |-> FALSE, digs |-> <<>>]
IntZero == IntVal(FALSE, <<"0">>)

\* int(text)
ParseInt(s) ==
    LET t == Strip(s)
        u == Unsigned(t)
    IN  IF u = <<>> \/ ~AllDigits(u) THEN IntErr
        ELSE IntVal(IsNeg(t), StripZeros(u))

\* lexicographic a <= b for digit strings of equal length
RECURSIVE DigitsLeq(_, _)
DigitsLeq(a, b) == IF a = <<>> THEN TRUE
                   ELSE IF DigitVal(Head(a)) # DigitVal(Head(b))
                        THEN DigitVal(Head(a)) < DigitVal(Head(b))
                        ELSE DigitsLeq(Tail(a), Tail(b))

Int64MaxDigits == <<"9","2","2","3","3","7","2","0","3","6","8","5","4","7","7","5","8","0","7">>
Int64MinDigits == <<"9","2","2","3","3","7","2","0","3","6","8","5","4","7","7","5","8","0","8">>

\* sqlite3 binds a Python int as a 64-bit INTEGER, or raises OverflowError
FitsInt64(i) ==
    LET lim == IF i.neg THEN Int64MinDigits ELSE Int64MaxDigits
    IN  \/ Len(i.digs) < Len(lim)
        \/ Len(i.digs) = Len(lim) /\ DigitsLeq(i.digs, lim)


(* ------------------------------ requests ------------------------------- *)
\* One request parameter: absent (params.get gives None / the default) or text.
Absent == [present |-> FALSE, text |-> Str0]
Field(t) == [present |-> TRUE, text |-> t]

\* params.get(name) is falsy when the parameter is absent or empty
Truthy(x) == x.present /\ x.text # Str0

\* params.get('r', '0') and params.get('s', '')
RetryParam(p) == IF p.r.present THEN p.r.text ELSE <<"0">>
SourceParam(p) == IF p.s.present THEN p.s.text ELSE Str0

\* variant: the search without .lower()
IsBootCaseSensitive(source) ==
    source # Str0 /\ Contains(source, <<"b","o","o","t">>)

\* source and 'boot' in source.lower()
IsBootNotification(source) ==
    source # Str0 /\ Contains(Lower(source), <<"b","o","o","t">>)

\* variant: stops at the first missing field
MissingFirstOnly(p) ==
    IF ~Truthy(p.v) THEN <<"v (voltage)">>
    ELSE IF ~Truthy(p.c) THEN <<"c (current)">>
    ELSE IF ~Truthy(p.k) THEN <<"k (kWh)">>
    ELSE <<>>

\* the three "if not x: missing_fields.append(...)" lines, in order
MissingFields(p) ==
    (IF ~Truthy(p.v) THEN <<"v (voltage)">> ELSE <<>>)
    \o (IF ~Truthy(p.c) THEN <<"c (current)">> ELSE <<>>)
    \o (IF ~Truthy(p.k) THEN <<"k (kWh)">> ELSE <<>>)

(* ------------------------------ validation ----------------------------- *)
VoltageMin == 0
VoltageMax == 500
CurrentMin == 0
CurrentMax == 1000
PowerFactorMin == 0
PowerFactorMax == 1
LoadMin == 0
KwhMin == 0
FrequencyMin == 45
FrequencyMax == 65

\* float(x) if x else None
ToFloat(x) == IF Truthy(x) THEN ParseFloat(x.text) ELSE Null

\* "x_val is not None and (x_val < lo or x_val > hi)"
OutOfRange(x, lo, hi) == x.k # "null" /\ (FloatLt(x, lo) \/ FloatGt(x, hi))
\* "x_val is not None and x_val < lo"
BelowMin(x, lo) == x.k # "null" /\ FloatLt(x, lo)

\* The try block of receive_meter_data: the first statement that raises
\* decides the message; <<>> when validation passes.
ValidationError(p) ==
    LET volt == ToFloat(p.v)
        curr == ToFloat(p.c)
        pf   == ToFloat(p.pf)
        load == ToFloat(p.l)
        kwh  == ToFloat(p.k)
        freq == ToFloat(p.f)
        rtxt == RetryParam(p)
    IN  CASE volt.k = "err"                                   -> <<"parse", "float">>
          [] OutOfRange(volt, VoltageMin, VoltageMax)         -> <<"range", "Voltage">>
          [] curr.k = "err"                                   -> <<"parse", "float">>
          [] OutOfRange(curr, CurrentMin, CurrentMax)         -> <<"range", "Current">>
          [] pf.k = "err"                                     -> <<"parse", "float">>
          [] OutOfRange(pf, PowerFactorMin, PowerFactorMax)   -> <<"range", "Power Factor">>
          [] load.k = "err"                                   -> <<"parse", "float">>
          [] BelowMin(load, LoadMin)                          -> <<"range", "Load">>
          [] kwh.k = "err"                                    -> <<"parse", "float">>
          [] BelowMin(kwh, KwhMin)                            -> <<"range", "kWh">>
          [] freq.k = "err"                                   -> <<"parse", "float">>
          [] OutOfRange(freq, FrequencyMin, FrequencyMax)     -> <<"range", "Frequency">>
          [] rtxt # Str0 /\ ParseInt(rtxt).k = "err"          -> <<"parse", "int">>
          [] OTHER                                            -> <<>>

\* int(retry_count) if retry_count else 0
RetryVal(p) == IF RetryParam(p) # Str0 THEN ParseInt(RetryParam(p)) ELSE IntZero

(* ------------------------------ store ---------------------------------- *)
\* sqlite3 stores a Python float nan as NULL
Bind(x) == IF x.k = "nan" THEN Null ELSE x

\* the meter_readings row that insert_reading writes for validated params
NewRow(p, id, received_at, utc) ==
    [ id           |-> id,
      voltage      |-> Bind(ToFloat(p.v)),
      current      |-> Bind(ToFloat(p.c)),
      power_factor |-> Bind(ToFloat(p.pf)),
      load_kw      |-> Bind(ToFloat(p.l)),
      kwh          |-> Bind(ToFloat(p.k)),
      frequency    |-> Bind(ToFloat(p.f)),
      datetime_str |-> p.d,
      retry_count  |-> RetryVal(p),
      source       |-> SourceParam(p),
      received_at  |-> received_at,
      created_at   |-> utc ]

\* variant: the upsert without the COALESCE sub-select
StatusAfterInsertResetsErrors(ds, source, received_at) ==
    [s \in DOMAIN ds \cup {source} |->
        IF s = source
        THEN [ last_seen |-> received_at, status |-> "online",
               boot_count |-> 0, error_count |-> 0 ]
        ELSE ds[s]]

\* INSERT OR REPLACE INTO device_status (source, last_seen, status, error_count):
\* the old row of the source is deleted and the new one takes the column
\* default for boot_count
StatusAfterInsert(ds, source, received_at) ==
    [s \in DOMAIN ds \cup {source} |->
        IF s = source
        THEN [ last_seen   |-> received_at,
               status      |-> "online",
               boot_count  |-> 0,
               error_count |-> IF source \in DOMAIN ds THEN ds[source].error_count ELSE 0 ]
        ELSE ds[s]]

\* update_device_status: SELECT the counts, then INSERT OR REPLACE with them
StatusAfterUpdate(ds, source, t, status, increment_boot, increment_error) ==
    LET boot  == (IF source \in DOMAIN ds THEN ds[source].boot_count ELSE 0)
                 + (IF increment_boot THEN 1 ELSE 0)
        error == (IF source \in DOMAIN ds THEN ds[source].error_count ELSE 0)
                 + (IF increment_error THEN 1 ELSE 0)
    IN  [s \in DOMAIN ds \cup {source} |->
            IF s = source
            THEN [ last_seen |-> t, status |-> status,
                   boot_count |-> boot, error_count |-> error ]
            ELSE ds[s]]


(* ------------------------------ queries -------------------------------- *)
\* date(received_at): the calendar day of a local timestamp
Date(t) == t \div TicksPerDay

\* A query date is absent (None or the empty string, both falsy) or a day.
NoDate == [present |-> FALSE, day |-> 0]
Day(d) == [present |-> TRUE, day |-> d]

\* variant: no source clause is ever added
FiltersNoSource(source) == FALSE

\* variant: "if source:", the sentinel taken for a device name
FiltersEverySource(source) == Truthy(source)

\* "if source and source != 'All'": whether AND source = ? is added
FiltersBySource(source) == Truthy(source) /\ source.text # <<"A","l","l">>

\* the WHERE clause built by get_readings
Matches(row, source, start_date, end_date) ==
    /\ FiltersBySource(source) => row.source = source.text
    /\ start_date.present => Date(row.received_at) >= start_date.day
    /\ end_date.present => Date(row.received_at) <= end_date.day

\* ORDER BY received_at DESC: rows with equal received_at come in an order
\* SQL leaves open; tie is "asc" or "desc" in rowid
Before(a, b, tie) ==
    \/ a.received_at > b.received_at
    \/ a.received_at = b.received_at /\ (IF tie = "asc" THEN a.id < b.id ELSE a.id > b.id)

RECURSIVE OrderDesc(_, _)
OrderDesc(rows, tie) ==
    IF rows = {} THEN <<>>
    ELSE LET first == CHOOSE r \in rows : \A o \in rows \ {r} : Before(r, o, tie)
         IN  <<first>> \o OrderDesc(rows \ {first}, tie)

\* LIMIT n: a negative n is no limit in SQLite
Limit(rows, n) == IF n < 0 \/ n >= Len(rows) THEN rows ELSE SubSeq(rows, 1, n)

\* get_readings(source, limit, start_date, end_date)
GetReadings(table, source, limit, start_date, end_date, tie) ==
    Limit(OrderDesc({r \in table : Matches(r, source, start_date, end_date)}, tie), limit)

\* request.args.get('limit', 1000, type=int)
DefaultLimit == 1000

\* def get_readings(self, source=None, limit=1000, ...)
GetReadingsLimit == 1000

\* ORDER BY received_at ASC, ties as in Before
RECURSIVE OrderAsc(_, _)
OrderAsc(rows, tie) ==
    IF rows = {} THEN <<>>
    ELSE LET last == CHOOSE r \in rows : \A o \in rows \ {r} : Before(r, o, tie)
         IN  OrderAsc(rows \ {last}, tie) \o <<last>>

\* date(received_at) BETWEEN ? AND ?: no row lies between NULL bounds
InRange(row, start_date, end_date) ==
    /\ start_date.present /\ end_date.present
    /\ start_date.day <= Date(row.received_at)
    /\ Date(row.received_at) <= end_date.day

\* get_readings_by_date_range(start_date, end_date, source)
GetReadingsByDateRange(table, start_date, end_date, source, tie) ==
    OrderAsc({r \in table : /\ InRange(r, start_date, end_date)
                            /\ FiltersBySource(source) => r.source = source.text}, tie)

(* ------------------------------ statistics ----------------------------- *)
\* SELECT source, COUNT(*) ... GROUP BY source, as a dict
CountBySource(table) ==
    [s \in {r.source : r \in table} |-> Cardinality({r \in table : r.source = s})]

\* round(last_24h / 24, 2) in hundredths: the nearest, a tie to the even one
AvgPerHour(last_24h) ==
    LET q == (25 * last_24h) \div 6
        rem == (25 * last_24h) % 6
    IN  IF rem > 3 \/ (rem = 3 /\ q % 2 = 1) THEN q + 1 ELSE q

\* SELECT MAX(received_at): NULL for an empty table
LatestTimestamp(table) ==
    IF table = {} THEN NoDate
    ELSE [present |-> TRUE,
          day |-> CHOOSE m \in {r.received_at : r \in table} :
                      \A r \in table : r.received_at <= m]

\* variant: the rows without a source left out of the per-source counts
StatisticsSkipsNoSource(table, ds, utc) ==
    [total_readings |-> Cardinality(table),
     sources |-> CountBySource({r \in table : r.source # Str0}),
     last_24h_readings |-> Cardinality({r \in table : r.received_at >= utc - TicksPerDay}),
     latest_timestamp |-> LatestTimestamp(table),
     avg_readings_per_hour |->
         AvgPerHour(Cardinality({r \in table : r.received_at >= utc - TicksPerDay})),
     device_statuses |-> {[source |-> src, status |-> ds[src].status,
                           last_seen |-> ds[src].last_seen] : src \in DOMAIN ds}]

\* the dict get_statistics returns from tables table and ds at UTC time utc
\* (without the size of the database file); device_statuses comes in no
\* stated order and is kept as a set
Statistics(table, ds, utc) ==
    [total_readings |-> Cardinality(table),
     sources |-> CountBySource(table),
     last_24h_readings |-> Cardinality({r \in table : r.received_at >= utc - TicksPerDay}),
     latest_timestamp |-> LatestTimestamp(table),
     avg_readings_per_hour |->
         AvgPerHour(Cardinality({r \in table : r.received_at >= utc - TicksPerDay})),
     device_statuses |-> {[source |-> src, status |-> ds[src].status,
                           last_seen |-> ds[src].last_seen] : src \in DOMAIN ds}]

(* ------------------------------ state ---------------------------------- *)
VARIABLES
    readings,       \* table meter_readings: a set of rows, ids unique
    next_id,        \* the next AUTOINCREMENT id of meter_readings
    device_status,  \* table device_status: source -> row (UNIQUE(source))
    now,            \* the clock, UTC, in ticks
    tz,             \* offset of the server's local time from UTC, in ticks
    req,            \* the request served by the last step
    resp,           \* its response
    lock,           \* DatabaseManager.lock: 0 when free, else the thread holding it
    dbw,            \* SQLite's write lock on the file: 0 when free, else its holder
    th,             \* thread -> the store call it is executing and where it is
    inserted,       \* history: the number of insert_reading calls that succeeded
    cleaned         \* history: the sum of the counts cleanup_old_data returned

store == <<readings, next_id, device_status>>
conc == <<lock, dbw, th>>
hist == <<inserted, cleaned>>
vars == <<readings, next_id, device_status, now, tz, req, resp, lock, dbw, th,
          inserted, cleaned>>

\* datetime.now(): naive local time
LocalNow == now + tz

BlankParams == [v |-> Absent, c |-> Absent, pf |-> Absent, l |-> Absent, k |-> Absent,
                f |-> Absent, d |-> Absent, r |-> Absent, s |-> Absent]
BlankQuery == [source |-> Absent, limit |-> 0, start_date |-> NoDate, end_date |-> NoDate]

\* days: the days_to_keep of a cleanup_old_data call
Request(op, p, q) == [op |-> op, p |-> p, q |-> q, days |-> 0]
NoReq == Request("none", BlankParams, BlankQuery)

Response(code, status, detail, reading_id, data) ==
    [code |-> code, status |-> status, detail |-> detail,
     reading_id |-> reading_id, data |-> data]
NoResp == Response(0, "none", <<>>, 0, <<>>)

\* worker threads of the server
NThreads == 2
Threads == 1..NThreads

\* op: the operation called; result: how the call ended; failed: one of its
\* statements raised; at_count, at_devices: see StCount
Idle == [pc |-> "idle", op |-> "", source |-> Str0, status |-> "",
         increment_boot |-> FALSE, increment_error |-> FALSE, days |-> 0,
         boot |-> 0, error |-> 0, rows |-> {}, dev |-> <<>>,
         failed |-> FALSE, result |-> "", at_count |-> 0, at_devices |-> 0]

Init ==
    /\ readings = {}
    /\ next_id = 1
    /\ device_status = <<>>
    /\ now = 0
    /\ tz = 0
    /\ req = NoReq
    /\ resp = NoResp
    /\ lock = 0
    /\ dbw = 0
    /\ th = [t \in Threads |-> Idle]
    /\ inserted = 0
    /\ cleaned = 0

(* ------------------------------ /meter --------------------------------- *)
\* variant: the reading is saved before the numeric fields are validated
ReachesInsertBeforeValidation(p) ==
    /\ ~IsBootNotification(SourceParam(p))
    /\ MissingFields(p) = <<>>

\* whether receive_meter_data gets as far as db_manager.insert_reading
ReachesInsert(p) ==
    /\ ~IsBootNotification(SourceParam(p))
    /\ MissingFields(p) = <<>>
    /\ ValidationError(p) = <<>>

\* insert_reading raises (and its connection rolls back) when a value
\* cannot be bound
InsertRaises(p) == ~FitsInt64(RetryVal(p))

\* the JSON body and status code of receive_meter_data
MeterResponse(p, id) ==
    IF IsBootNotification(SourceParam(p))
        THEN Response(200, "BOOT_ACK", <<>>, 0, <<>>)
    ELSE IF MissingFields(p) # <<>>
        THEN Response(400, "Missing required fields", MissingFields(p), 0, <<>>)
    ELSE IF ValidationError(p) # <<>>
        THEN Response(400, "Invalid data format", ValidationError(p), 0, <<>>)
    ELSE IF InsertRaises(p)
        THEN Response(500, "Database error", <<>>, 0, <<>>)
    ELSE Response(200, "OK", <<>>, id, <<>>)

\* insert_reading: one transaction, INSERT then INSERT OR REPLACE then commit
InsertReading(p) ==
    /\ next_id <= MaxReadings
    /\ readings' = readings \cup {NewRow(p, next_id, LocalNow, now)}
    /\ next_id' = next_id + 1
    /\ device_status' = StatusAfterInsert(device_status, SourceParam(p), LocalNow)
    /\ inserted' = inserted + 1
    /\ cleaned' = cleaned

\* GET/POST /meter with parameters p
ReceiveMeterData(p) ==
    /\ req' = Request("meter", p, BlankQuery)
    /\ resp' = MeterResponse(p, next_id)
    /\ IF ReachesInsert(p) /\ ~InsertRaises(p)
       THEN InsertReading(p)
       ELSE UNCHANGED <<store, hist>>
    /\ UNCHANGED <<now, tz>>

(* ------------------------------ /api/data ------------------------------ *)
\* GET /api/data
GetData(q, tie) ==
    /\ req' = Request("data", BlankParams, q)
    /\ resp' = Response(200, "success", <<>>, 0,
                        GetReadings(readings, q.source, q.limit, q.start_date, q.end_date, tie))
    /\ UNCHANGED <<store, now, tz, hist>>

(* ------------------------------ /api/stats ----------------------------- *)
\* GET /api/stats
GetStats ==
    /\ req' = Request("stats", BlankParams, BlankQuery)
    /\ resp' = Response(200, "success", <<>>, 0,
                        <<Statistics(readings, device_status, now)>>)
    /\ UNCHANGED <<store, now, tz, hist>>

(* ------------------------------ /api/export ---------------------------- *)
\* GET /api/export: the rows written to the CSV file, in order
ExportData(q, tie) ==
    /\ req' = Request("export", BlankParams, q)
    /\ resp' = Response(200, "csv", <<>>, 0,
                        GetReadings(readings, q.source, GetReadingsLimit,
                                    q.start_date, q.end_date, tie))
    /\ UNCHANGED <<store, now, tz, hist>>

(* ------------------------------ store calls ---------------------------- *)
\* db_manager.get_readings_by_date_range(start_date, end_date, source)
RangeCall(q, tie) ==
    /\ req' = Request("get_readings_by_date_range", BlankParams, q)
    /\ resp' = Response(0, "rows", <<>>, 0,
                        GetReadingsByDateRange(readings, q.start_date, q.end_date,
                                               q.source, tie))
    /\ UNCHANGED <<store, now, tz, hist>>

\* db_manager.update_device_status(source, status, increment_boot, increment_error)
UpdateDeviceStatus(source, status, increment_boot, increment_error) ==
    /\ LET new == StatusAfterUpdate(device_status, source, LocalNow, status,
                                    increment_boot, increment_error)
       IN  /\ new[source].boot_count <= MaxCount
           /\ new[source].error_count <= MaxCount
           /\ device_status' = new
    /\ req' = Request("update_device_status", BlankParams, BlankQuery)
    /\ resp' = NoResp
    /\ UNCHANGED <<readings, next_id, now, tz, hist>>

\* datetime(received_at) < datetime('now', '-D days'); the modifier '--1 days'
\* of a negative D is malformed, the bound is NULL and no row compares
Expired(row, days_to_keep) ==
    days_to_keep >= 0 /\ row.received_at < now - days_to_keep * TicksPerDay

\* db_manager.cleanup_old_data(days_to_keep): returns the number deleted
CleanupOldData(days_to_keep) ==
    LET old == {r \in readings : Expired(r, days_to_keep)}
    IN  /\ readings' = readings \ old
        /\ req' = [Request("cleanup_old_data", BlankParams, BlankQuery)
                        EXCEPT !.days = days_to_keep]
        /\ resp' = Response(0, "deleted", <<>>, Cardinality(old), <<>>)
        /\ cleaned' = cleaned + Cardinality(old)
        /\ UNCHANGED <<next_id, device_status, now, tz, inserted>>

\* time passes; the last exchange is over
Tick ==
    /\ now < MaxClock
    /\ now' = now + 1
    /\ req' = NoReq
    /\ resp' = NoResp
    /\ UNCHANGED <<store, tz, hist>>


(* ------------------------------ inputs --------------------------------- *)
SrcM1    == <<"m","1">>
SrcAll   == <<"A","l","l">>
SrcBot   == <<"b","o","t">>
SrcBOOT  == <<"B","O","O","T">>
SrcMixed == <<"m","1","-","b","O","o","T">>
SrcInner == <<"r","e","b","o","o","t","7">>

\* the sample request of /test: v=230.5 c=8.750 pf=0.92 l=2.015 k=1250.75 f=50.2 r=0
BaseParams ==
    [v |-> Field(<<"2","3","0",".","5">>), c |-> Field(<<"8",".","7","5","0">>), pf |-> Field(<<"0",".","9","2">>), l |-> Field(<<"2",".","0","1","5">>),
     k |-> Field(<<"1","2","5","0",".","7","5">>), f |-> Field(<<"5","0",".","2">>), d |-> Field(<<"d","1">>), r |-> Field(<<"0">>),
     s |-> Field(SrcM1)]

\* texts tried for each parameter: absent, empty, boundaries, just outside,
\* nan, inf, not a number
VoltageTexts ==
    { Absent, Field(<<>>), Field(<<"0">>), Field(<<"5","0","0">>),
      Field(<<"-","0",".","0","0","1">>), Field(<<"5","0","0",".","0","0","1">>),
      Field(<<"n","a","n">>), Field(<<"a","b","c">>), Field(<<" ","2","3","0"," ">>),
      Field(<<"-","0">>) }
CurrentTexts ==
    { Absent, Field(<<>>), Field(<<"0">>), Field(<<"1","0","0","0">>),
      Field(<<"-","0",".","0","0","1">>), Field(<<"1","0","0","0",".","0","0","1">>),
      Field(<<"N","a","N">>), Field(<<"1","e">>) }
PowerFactorTexts ==
    { Absent, Field(<<>>), Field(<<"0">>), Field(<<"1">>), Field(<<"-","0",".","0","0","1">>),
      Field(<<"1",".","0","0","1">>), Field(<<"n","a","n">>), Field(<<".","5">>),
      Field(<<"x">>) }
LoadTexts ==
    { Absent, Field(<<>>), Field(<<"0">>), Field(<<"-","0",".","0","0","1">>),
      Field(<<"i","n","f">>), Field(<<"-","i","n","f">>), Field(<<"n","a","n">>),
      Field(<<"2",".">>) }
KwhTexts ==
    { Absent, Field(<<>>), Field(<<"0">>), Field(<<"-","0",".","0","0","1">>),
      Field(<<"I","n","f","i","n","i","t","y">>), Field(<<"n","a","n">>),
      Field(<<"1",",","5">>) }
FrequencyTexts ==
    { Absent, Field(<<>>), Field(<<"4","5">>), Field(<<"6","5">>),
      Field(<<"4","4",".","9","9","9">>), Field(<<"6","5",".","0","0","1">>),
      Field(<<"n","a","n">>), Field(<<"+","5","0">>) }
RetryTexts ==
    { Absent, Field(<<>>), Field(<<"3">>), Field(<<"-","2">>), Field(<<"1",".","5">>),
      Field(<<"x">>),
      Field(<<"9","2","2","3","3","7","2","0","3","6","8","5","4","7","7","5","8","0","7">>),
      Field(<<"9","2","2","3","3","7","2","0","3","6","8","5","4","7","7","5","8","0","8">>) }
SourceTexts ==
    { Absent, Field(<<>>), Field(<<"m","1">>), Field(<<"A","l","l">>), Field(<<"b","o","t">>),
      Field(<<"B","O","O","T">>), Field(<<"m","1","-","b","O","o","T">>),
      Field(<<"r","e","b","o","o","t","7">>) }

\* BaseParams with one parameter replaced
Variants(P, name, texts) == {[p EXCEPT ![name] = x] : p \in P, x \in texts}

OneChanged ==
    Variants({BaseParams}, "v", VoltageTexts) \cup Variants({BaseParams}, "c", CurrentTexts)
    \cup Variants({BaseParams}, "pf", PowerFactorTexts) \cup Variants({BaseParams}, "l", LoadTexts)
    \cup Variants({BaseParams}, "k", KwhTexts) \cup Variants({BaseParams}, "f", FrequencyTexts)
    \cup Variants({BaseParams}, "r", RetryTexts)

\* two parameters replaced
TwoChanged ==
    Variants(Variants({BaseParams}, "v", VoltageTexts), "c", CurrentTexts)
    \cup Variants(Variants({BaseParams}, "k", KwhTexts), "r", RetryTexts)

\* v, c and k each absent, empty or given
RequiredCombos ==
    {[BaseParams EXCEPT !.v = x, !.c = y, !.k = z] :
        x \in {Absent, Field(Str0), BaseParams.v},
        y \in {Absent, Field(Str0), BaseParams.c},
        z \in {Absent, Field(Str0), BaseParams.k}}

\* every /meter request of the validation runs
AllRequests == Variants(OneChanged \cup RequiredCombos, "s", SourceTexts) \cup TwoChanged

\* the /meter requests of the store runs: accepted from two sources, a boot
\* notification, a missing field, a value out of range
Requests ==
    { BaseParams,
      [BaseParams EXCEPT !.s = Absent],
      [BaseParams EXCEPT !.s = Field(SrcBOOT), !.v = Absent],
      [BaseParams EXCEPT !.k = Field(Str0)],
      [BaseParams EXCEPT !.v = Field(<<"5","0","0",".","0","0","1">>)] }

Statuses == {"offline"}
StatusSources == {SrcM1}
Days == {0, 1}

Queries ==
    { [source |-> Field(SrcAll), limit |-> -1, start_date |-> NoDate, end_date |-> NoDate],
      [source |-> Field(SrcM1), limit |-> 1, start_date |-> NoDate, end_date |-> NoDate],
      [source |-> Absent, limit |-> DefaultLimit, start_date |-> Day(0), end_date |-> Day(0)] }
Ties == {"asc", "desc"}

(* ------------------------------ specification -------------------------- *)
\* Any sequence of requests, store calls and clock ticks, one at a time.
Submit == \E p \in Requests : ReceiveMeterData(p) /\ UNCHANGED conc
Query == \E q \in Queries, tie \in Ties : GetData(q, tie) /\ UNCHANGED conc
StatusCall ==
    \E src \in StatusSources, st \in Statuses, ib \in BOOLEAN, ie \in BOOLEAN :
        UpdateDeviceStatus(src, st, ib, ie) /\ UNCHANGED conc
Cleanup == \E d \in Days : CleanupOldData(d) /\ UNCHANGED conc
Clock == Tick /\ UNCHANGED conc
Stats == GetStats /\ UNCHANGED conc

Next == Submit \/ Query \/ StatusCall \/ Cleanup \/ Clock \/ Stats

Spec == Init /\ [][Next]_vars

\* The same, on a server whose local time is UTC or ahead of it.
TzOffsets == {0, 1}
InitTz ==
    /\ readings = {}
    /\ next_id = 1
    /\ device_status = <<>>
    /\ now = 0
    /\ tz \in TzOffsets
    /\ req = NoReq
    /\ resp = NoResp
    /\ lock = 0
    /\ dbw = 0
    /\ th = [t \in Threads |-> Idle]
    /\ inserted = 0
    /\ cleaned = 0

SpecTz == InitTz /\ [][Next]_vars

\* Submissions, exports of a date range and clock ticks.
RangeQueries ==
    { [source |-> Absent, limit |-> 0, start_date |-> Day(0), end_date |-> Day(0)],
      [source |-> Field(SrcM1), limit |-> 0, start_date |-> Day(0), end_date |-> Day(1)] }

Export == \E q \in RangeQueries, tie \in Ties : ExportData(q, tie) /\ UNCHANGED conc
Range == \E q \in RangeQueries, tie \in Ties : RangeCall(q, tie) /\ UNCHANGED conc

NextExport == Submit \/ Clock \/ Export \/ Range

SpecExport == Init /\ [][NextExport]_vars

(* ------------------------------ validation runs ------------------------ *)
\* One /meter request, any of AllRequests, against a store prepared by a few
\* store calls; the run ends with the request.
Prepared == req.op # "meter"

\* db_manager.insert_reading called with validated values
InsertCall(p) ==
    /\ InsertReading(p)
    /\ req' = Request("insert_reading", BlankParams, BlankQuery)
    /\ resp' = Response(0, "inserted", <<>>, next_id, <<>>)
    /\ UNCHANGED <<now, tz>>

SeedInsert == Prepared /\ next_id < MaxReadings /\ InsertCall(BaseParams) /\ UNCHANGED conc
SeedStatus == Prepared /\ UpdateDeviceStatus(SrcM1, "offline", TRUE, TRUE) /\ UNCHANGED conc
SeedClock == Prepared /\ Tick /\ UNCHANGED conc
Deliver == Prepared /\ \E p \in AllRequests : ReceiveMeterData(p) /\ UNCHANGED conc

NextV == SeedInsert \/ SeedStatus \/ SeedClock \/ Deliver

SpecV == Init /\ [][NextV]_vars


(* ------------------------------ concurrent store calls ----------------- *)
\* Worker threads call the store's operations at the same time; each step
\* below is one statement.  A thread that finds SQLite's write lock taken
\* waits for it, or gives up with OperationalError when the busy timeout runs
\* out; a statement can fail with an I/O error.  A failed call rolls its
\* transaction back.
Set(t, r) == th' = [th EXCEPT ![t] = r]
At(t, pc) == th[t].pc = pc

Inserting == {t \in Threads : th[t].pc \in {"ins_lock", "ins_insert", "ins_upsert", "ins_commit"}}

\* what the except clause of the operation does with the error
OnError(op) ==
    IF op \in {"get_statistics", "update_device_status"} THEN "returned" ELSE "raised"

\* the call of thread t is over: normally, or after a statement failed
Returns(t) == [Idle EXCEPT !.pc = "done", !.op = th[t].op, !.result = "returned",
                           !.at_count = th[t].at_count, !.at_devices = th[t].at_devices]
Abandons(t) == [Idle EXCEPT !.pc = "done", !.op = th[t].op, !.failed = TRUE,
                            !.result = OnError(th[t].op), !.rows = th[t].rows]

\* insert_reading is called (with the values of BaseParams)
CallInsert(t) ==
    /\ At(t, "idle")
    /\ next_id + Cardinality(Inserting) <= MaxReadings
    /\ Set(t, [Idle EXCEPT !.pc = "ins_lock", !.op = "insert_reading",
                           !.source = SourceParam(BaseParams)])
    /\ UNCHANGED <<store, hist, now, tz, req, resp, lock, dbw>>

\* with self.lock:
InsAcquire(t) ==
    /\ At(t, "ins_lock")
    /\ lock = 0
    /\ lock' = t
    /\ Set(t, [th[t] EXCEPT !.pc = "ins_insert"])
    /\ UNCHANGED <<store, hist, now, tz, req, resp, dbw>>

\* received_at = datetime.now().isoformat(); INSERT INTO meter_readings
InsInsert(t) ==
    /\ At(t, "ins_insert")
    /\ dbw = 0
    /\ dbw' = t
    /\ Set(t, [th[t] EXCEPT !.pc = "ins_upsert",
                            !.rows = {NewRow(BaseParams, next_id, LocalNow, now)}])
    /\ UNCHANGED <<store, hist, now, tz, req, resp, lock>>

\* INSERT OR REPLACE INTO device_status
InsUpsert(t) ==
    /\ At(t, "ins_upsert")
    /\ LET row == CHOOSE r \in th[t].rows : TRUE
           new == StatusAfterInsert(device_status, th[t].source, row.received_at)
       IN  Set(t, [th[t] EXCEPT !.pc = "ins_commit", !.dev = <<new[th[t].source]>>])
    /\ UNCHANGED <<store, hist, now, tz, req, resp, lock, dbw>>

\* conn.commit()
InsCommit(t) ==
    /\ At(t, "ins_commit")
    /\ readings' = readings \cup th[t].rows
    /\ next_id' = next_id + 1
    /\ device_status' = [s \in DOMAIN device_status \cup {th[t].source} |->
                            IF s = th[t].source THEN th[t].dev[1] ELSE device_status[s]]
    /\ dbw' = 0
    /\ inserted' = inserted + 1
    /\ Set(t, [Idle EXCEPT !.pc = "ins_unlock", !.op = th[t].op])
    /\ UNCHANGED <<cleaned, now, tz, req, resp, lock>>

\* return reading_id, leaving "with self.lock"
InsRelease(t) ==
    /\ At(t, "ins_unlock")
    /\ lock' = 0
    /\ Set(t, Returns(t))
    /\ UNCHANGED <<store, hist, now, tz, req, resp, dbw>>

\* update_device_status is called
CallUpdate(t, source, status, increment_boot, increment_error) ==
    /\ At(t, "idle")
    /\ Set(t, [Idle EXCEPT !.pc = "uds_select", !.op = "update_device_status",
                           !.source = source, !.status = status,
                           !.increment_boot = increment_boot,
                           !.increment_error = increment_error])
    /\ UNCHANGED <<store, hist, now, tz, req, resp, lock, dbw>>

\* SELECT boot_count, error_count ...; the two sums
UdsSelect(t) ==
    /\ At(t, "uds_select")
    /\ LET src   == th[t].source
           boot  == (IF src \in DOMAIN device_status THEN device_status[src].boot_count ELSE 0)
                    + (IF th[t].increment_boot THEN 1 ELSE 0)
           error == (IF src \in DOMAIN device_status THEN device_status[src].error_count ELSE 0)
                    + (IF th[t].increment_error THEN 1 ELSE 0)
       IN  /\ boot <= MaxCount
           /\ error <= MaxCount
           /\ Set(t, [th[t] EXCEPT !.pc = "uds_write", !.boot = boot, !.error = error])
    /\ UNCHANGED <<store, hist, now, tz, req, resp, lock, dbw>>

\* INSERT OR REPLACE INTO device_status, with datetime.now()
UdsWrite(t) ==
    /\ At(t, "uds_write")
    /\ dbw = 0
    /\ dbw' = t
    /\ Set(t, [th[t] EXCEPT !.pc = "uds_commit",
                            !.dev = << [ last_seen |-> LocalNow, status |-> th[t].status,
                                         boot_count |-> th[t].boot,
                                         error_count |-> th[t].error ] >>])
    /\ UNCHANGED <<store, hist, now, tz, req, resp, lock>>

\* conn.commit(); the call returns
UdsCommit(t) ==
    /\ At(t, "uds_commit")
    /\ device_status' = [s \in DOMAIN device_status \cup {th[t].source} |->
                            IF s = th[t].source THEN th[t].dev[1] ELSE device_status[s]]
    /\ dbw' = 0
    /\ Set(t, [Returns(t) EXCEPT !.source = th[t].source,
                                 !.increment_boot = th[t].increment_boot,
                                 !.increment_error = th[t].increment_error])
    /\ UNCHANGED <<readings, next_id, hist, now, tz, req, resp, lock>>

\* cleanup_old_data is called
CallCleanup(t, days_to_keep) ==
    /\ At(t, "idle")
    /\ Set(t, [Idle EXCEPT !.pc = "cl_delete", !.op = "cleanup_old_data",
                           !.days = days_to_keep])
    /\ UNCHANGED <<store, hist, now, tz, req, resp, lock, dbw>>

\* DELETE FROM meter_readings WHERE ...
ClDelete(t) ==
    /\ At(t, "cl_delete")
    /\ dbw = 0
    /\ dbw' = t
    /\ Set(t, [th[t] EXCEPT !.pc = "cl_commit",
                            !.rows = {r \in readings : Expired(r, th[t].days)}])
    /\ UNCHANGED <<store, hist, now, tz, req, resp, lock>>

\* conn.commit(); return deleted_count
ClCommit(t) ==
    /\ At(t, "cl_commit")
    /\ readings' = readings \ th[t].rows
    /\ dbw' = 0
    /\ cleaned' = cleaned + Cardinality(th[t].rows)
    /\ Set(t, Returns(t))
    /\ UNCHANGED <<next_id, device_status, inserted, now, tz, req, resp, lock>>

\* get_statistics is called
CallStats(t) ==
    /\ At(t, "idle")
    /\ Set(t, [Idle EXCEPT !.pc = "st_count", !.op = "get_statistics"])
    /\ UNCHANGED <<store, hist, now, tz, req, resp, lock, dbw>>

\* the SELECTs on meter_readings, each in autocommit mode; at_count is the
\* next_id of the table they read, which tells what had been committed
StCount(t) ==
    /\ At(t, "st_count")
    /\ Set(t, [th[t] EXCEPT !.pc = "st_devices", !.rows = readings, !.at_count = next_id])
    /\ UNCHANGED <<store, hist, now, tz, req, resp, lock, dbw>>

\* SELECT source, status, last_seen FROM device_status; the dict is returned
StDevices(t) ==
    /\ At(t, "st_devices")
    /\ Set(t, [Returns(t) EXCEPT !.at_devices = next_id])
    /\ UNCHANGED <<store, hist, now, tz, req, resp, lock, dbw>>

\* sqlite3.OperationalError "database is locked": the call is abandoned
\* (insert_reading leaves its with-block, which releases self.lock)
Busy(t) ==
    /\ th[t].pc \in {"ins_insert", "uds_write", "cl_delete"}
    /\ dbw \notin {0, t}
    /\ lock' = IF lock = t THEN 0 ELSE lock
    /\ Set(t, Abandons(t))
    /\ UNCHANGED <<store, hist, now, tz, req, resp, dbw>>

\* a statement of the call raises sqlite3.Error (disk I/O error, disk full):
\* the connection's context manager rolls back, the except clause runs
\* (taken at one statement of each operation)
Fails(t) ==
    /\ th[t].pc \in {"ins_upsert", "uds_select", "cl_delete", "st_count"}
    /\ lock' = IF lock = t THEN 0 ELSE lock
    /\ dbw' = IF dbw = t THEN 0 ELSE dbw
    /\ Set(t, Abandons(t))
    /\ UNCHANGED <<store, hist, now, tz, req, resp>>

\* the caller goes on
Return(t) ==
    /\ At(t, "done")
    /\ Set(t, Idle)
    /\ UNCHANGED <<store, hist, now, tz, req, resp, lock, dbw>>

ConcStatusArgs == { <<SrcM1, "offline", TRUE, FALSE>>, <<SrcM1, "online", FALSE, TRUE>> }

ThreadCalls ==
    \E t \in Threads :
        \/ CallInsert(t)
        \/ \E a \in ConcStatusArgs : CallUpdate(t, a[1], a[2], a[3], a[4])
        \/ \E d \in Days : CallCleanup(t, d)
        \/ CallStats(t)
InsertSteps == \E t \in Threads : InsAcquire(t) \/ InsInsert(t) \/ InsUpsert(t) \/ InsCommit(t) \/ InsRelease(t)
UpdateSteps == \E t \in Threads : UdsSelect(t) \/ UdsWrite(t) \/ UdsCommit(t)
CleanupSteps == \E t \in Threads : ClDelete(t) \/ ClCommit(t)
StatsSteps == \E t \in Threads : StCount(t) \/ StDevices(t)
BusySteps == \E t \in Threads : Busy(t)
FailSteps == \E t \in Threads : Fails(t)
ReturnSteps == \E t \in Threads : Return(t)

NextConc ==
    \/ ThreadCalls \/ InsertSteps \/ UpdateSteps \/ CleanupSteps \/ StatsSteps
    \/ BusySteps \/ FailSteps \/ ReturnSteps \/ Clock

SpecConc == Init /\ [][NextConc]_vars

(* ------------------------------ properties ----------------------------- *)
\* "contains the substring boot in any letter case", said without lower()
BootLetters == << {"b","B"}, {"o","O"}, {"o","O"}, {"t","T"} >>
HasBootAnyCase(s) ==
    \E i \in 0..(Len(s) - Len(BootLetters)) :
        \A j \in 1..Len(BootLetters) : s[i + j] \in BootLetters[j]

\* the source of the request served by the last step
ReqSource == SourceParam(req.p)

\* the last step served a /meter request
MeterServed == req.op = "meter"
BootServed == MeterServed /\ HasBootAnyCase(ReqSource)
NonBootServed == MeterServed /\ ~HasBootAnyCase(ReqSource)

\* C1: a /meter submission whose source contains "boot" in any case upserts
\* the DeviceStatus row of that source: boot_count is its old value (0 without
\* a row) plus 1, status is "online" and last_seen is the time of the call.
C1_BootUpsertsDeviceStatus ==
    [][ BootServed' =>
            LET s == ReqSource'
                old == IF s \in DOMAIN device_status THEN device_status[s].boot_count ELSE 0
            IN  /\ s \in DOMAIN device_status'
                /\ device_status'[s].boot_count = old + 1
                /\ device_status'[s].status = "online"
                /\ device_status'[s].last_seen = LocalNow' ]_vars

\* C2: a /meter submission whose source contains "boot" in any case is answered
\* with the boot acknowledgement whatever its other parameters are, and leaves
\* the set of Reading rows as it was.
C2_BootAcknowledged ==
    [][ BootServed' =>
            /\ resp'.code = 200
            /\ resp'.status = "BOOT_ACK"
            /\ readings' = readings ]_vars

\* a boot notification in mixed case, without v and k and with an empty c,
\* is acknowledged while a reading is stored
C2_Witness ==
    /\ BootServed
    /\ resp.status = "BOOT_ACK"
    /\ ~req.p.v.present /\ req.p.c = Field(Str0) /\ ~req.p.k.present
    /\ ReqSource = SrcMixed
    /\ readings # {}

NumericParams(p) == <<p.v, p.c, p.pf, p.l, p.k, p.f>>

\* every numeric parameter that is given parses
AllParse(p) ==
    /\ \A i \in 1..Len(NumericParams(p)) : ToFloat(NumericParams(p)[i]).k # "err"
    /\ RetryParam(p) # Str0 => ParseInt(RetryParam(p)).k # "err"

\* lo <= x <= hi for a value that is given; nan lies in no range
Within(x, lo, hi) ==
    x.k = "null" \/ (x.k = "num" /\ lo * Pow10(Scale) <= x.n /\ x.n <= hi * Pow10(Scale))
AtLeast(x, lo) ==
    x.k = "null" \/ (x.k = "num" /\ lo * Pow10(Scale) <= x.n) \/ (x.k = "inf" /\ x.n > 0)

AllInRange(p) ==
    /\ Within(ToFloat(p.v), 0, 500)
    /\ Within(ToFloat(p.c), 0, 1000)
    /\ Within(ToFloat(p.pf), 0, 1)
    /\ Within(ToFloat(p.f), 45, 65)
    /\ AtLeast(ToFloat(p.l), 0)
    /\ AtLeast(ToFloat(p.k), 0)

\* the required parameters that are absent or empty
MissingSet(p) == {n \in {"v", "c", "k"} : ~p[n].present \/ p[n].text = Str0}
FieldLabel(n) == CASE n = "v" -> "v (voltage)" [] n = "c" -> "c (current)" [] OTHER -> "k (kWh)"
Named(detail) == {detail[i] : i \in 1..Len(detail)}

\* C3: a non-boot submission with v, c and k given and every given number
\* parseable is accepted exactly when every given field lies in its inclusive
\* range, and is rejected as a validation failure otherwise.
C3_AcceptedIffInRange ==
    (NonBootServed /\ MissingSet(req.p) = {} /\ AllParse(req.p)) =>
        /\ resp.status = "OK" <=> AllInRange(req.p)
        /\ ~AllInRange(req.p) => resp.code = 400 /\ resp.status = "Invalid data format"

\* C4: a non-boot submission in which some of v, c, k are absent or empty is
\* rejected and the reason names every one of them.
C4_EveryMissingFieldNamed ==
    (NonBootServed /\ MissingSet(req.p) # {}) =>
        /\ resp.code = 400
        /\ resp.status = "Missing required fields"
        /\ \A n \in MissingSet(req.p) : FieldLabel(n) \in Named(resp.detail)

\* v absent, c empty and k absent: all three are named
C4_Witness ==
    /\ NonBootServed
    /\ ~req.p.v.present /\ req.p.c = Field(Str0) /\ ~req.p.k.present
    /\ Len(resp.detail) = Cardinality({"v", "c", "k"})

\* C5: a non-boot submission rejected by validation leaves the persisted
\* state as it was: no Reading row added, no DeviceStatus row created or changed.
C5_RejectionLeavesStore ==
    [][ (NonBootServed' /\ resp'.code = 400) =>
            /\ readings' = readings
            /\ device_status' = device_status ]_vars

\* an unparseable retry count, found by the last check of all, with a
\* reading and a device row in the store
C5_Witness ==
    /\ NonBootServed
    /\ resp.code = 400
    /\ resp.detail = <<"parse", "int">>
    /\ readings # {}
    /\ DOMAIN device_status # {}

\* C6: an accepted non-boot submission adds exactly one Reading row and
\* upserts the DeviceStatus row of its source alone: last_seen is the row's
\* received_at, status is "online", error_count is what it was (0 without a row).
C6_AcceptedAddsOneReading ==
    [][ (NonBootServed' /\ resp'.status = "OK") =>
            LET s == ReqSource'
                old == IF s \in DOMAIN device_status THEN device_status[s].error_count ELSE 0
            IN  /\ \E row \in readings' :
                    /\ row \notin readings
                    /\ readings' = readings \cup {row}
                    /\ row.id = resp'.reading_id
                    /\ row.source = s
                    /\ device_status'[s].last_seen = row.received_at
                /\ DOMAIN device_status' = DOMAIN device_status \cup {s}
                /\ device_status'[s].status = "online"
                /\ device_status'[s].error_count = old
                /\ \A o \in DOMAIN device_status \ {s} : device_status'[o] = device_status[o] ]_vars

\* accepted for a source whose row carried an error count
C6_Witness ==
    /\ NonBootServed
    /\ resp.status = "OK"
    /\ ReqSource \in DOMAIN device_status
    /\ device_status[ReqSource].error_count > 0
    /\ Cardinality(readings) > 1

\* C7: no store operation lowers the boot_count or the error_count of a
\* DeviceStatus row, nor removes the row.
C7_CountsNeverDecrease ==
    [][ \A s \in DOMAIN device_status :
            /\ s \in DOMAIN device_status'
            /\ device_status'[s].boot_count >= device_status[s].boot_count
            /\ device_status'[s].error_count >= device_status[s].error_count ]_vars

Descending(rows) ==
    \A i \in 1..(Len(rows) - 1) : rows[i].received_at >= rows[i + 1].received_at

\* C9: /api/data with limit N answers with at most N readings (none for a
\* negative N), in descending received_at order.
C9_AtMostLimitDescending ==
    req.op = "data" =>
        /\ Len(resp.data) <= (IF req.q.limit < 0 THEN 0 ELSE req.q.limit)
        /\ Descending(resp.data)

QueryLimits == {-1, 0, 1, 2, DefaultLimit}
QueryDates == {NoDate} \cup {Day(d) : d \in 0..Date(MaxClock)}

\* C10: get_readings with source "All" returns the sequence that get_readings
\* without a source returns, for every limit, start_date and end_date.
C10_AllIsNoFilter ==
    \A n \in QueryLimits, sd \in QueryDates, ed \in QueryDates, tie \in Ties :
        GetReadings(readings, Field(SrcAll), n, sd, ed, tie)
            = GetReadings(readings, Absent, n, sd, ed, tie)

\* /api/data?source=All answered with readings of two sources
C10_Witness ==
    /\ req.op = "data"
    /\ req.q.source = Field(SrcAll)
    /\ \E i, j \in 1..Len(resp.data) : resp.data[i].source # resp.data[j].source


\* the thread is executing the statements of a write operation
InWrite(t) ==
    th[t].pc \in {"ins_insert", "ins_upsert", "ins_commit",
                  "uds_select", "uds_write", "uds_commit",
                  "cl_delete", "cl_commit"}

\* C8: insert_reading, update_device_status and cleanup_old_data execute
\* their statements holding the store's lock, so no two write operations of
\* the store are in progress at once.
C8_WritesSerialized ==
    /\ \A t \in Threads : InWrite(t) => lock = t
    /\ \A t, u \in Threads : (InWrite(t) /\ InWrite(u)) => t = u


\* the readings older than (server time - days) days, server time being
\* the clock that stamps received_at
OlderThan(days) == {r \in readings : r.received_at < LocalNow - days * TicksPerDay}

\* C11: cleanup_old_data(D) deletes exactly the readings whose received_at is
\* older than the server time less D days, leaves the other readings and
\* every DeviceStatus row, and returns the number deleted.
C11_CleanupDeletesExactlyOld ==
    [][ req'.op = "cleanup_old_data" =>
            /\ readings' = readings \ OlderThan(req'.days)
            /\ device_status' = device_status
            /\ resp'.reading_id = Cardinality(OlderThan(req'.days)) ]_vars

RECURSIVE SumOver(_, _)
\* the sum of f over the keys in S
SumOver(f, S) ==
    IF S = {} THEN 0
    ELSE LET k == CHOOSE k \in S : TRUE IN f[k] + SumOver(f, S \ {k})

StatsServed == req.op = "stats"

\* C12: the total_readings of a statistics result is the number of successful
\* insert_reading calls less the sum of the counts cleanup_old_data returned,
\* and is the sum of the per-source counts of the same result.
C12_TotalIsInsertsLessCleaned ==
    StatsServed =>
        LET stats == resp.data[1]
        IN  /\ stats.total_readings = inserted - cleaned
            /\ stats.total_readings = SumOver(stats.sources, DOMAIN stats.sources)

\* statistics served after two inserts from different sources and a cleanup
\* that deleted a reading
C12_Witness ==
    /\ StatsServed
    /\ inserted = 2
    /\ cleaned > 0
    /\ resp.data[1].total_readings > 0
    /\ Str0 \in DOMAIN resp.data[1].sources

\* the call of thread t has just ended
Done(t) == th[t].pc = "done"

\* C13: a store operation one of whose statements failed ends with an error
\* raised to its caller, never with a normal return.
C13_FailureIsRaised ==
    \A t \in Threads : (Done(t) /\ th[t].failed) => th[t].result = "raised"

Ascending(rows) ==
    \A i \in 1..(Len(rows) - 1) : rows[i].received_at <= rows[i + 1].received_at

\* the stored readings of the date range and source of query q
InQuery(q) ==
    {r \in readings :
        /\ q.start_date.day <= r.received_at \div TicksPerDay
        /\ r.received_at \div TicksPerDay <= q.end_date.day
        /\ (q.source.present /\ q.source.text \notin {Str0, SrcAll}) => r.source = q.source.text}

RangeCallIsWholeRangeAscending ==
    req.op = "get_readings_by_date_range" =>
        /\ {resp.data[i] : i \in 1..Len(resp.data)} = InQuery(req.q)
        /\ Len(resp.data) = Cardinality(InQuery(req.q))
        /\ Ascending(resp.data)

\* thread t takes the step that ends its call, from statement pc
Ends(t, pc) == th[t].pc = pc /\ th'[t].pc = "done"

\* C15: insert_reading is all or nothing.  A get_statistics call sees the
\* Reading row of an insert_reading call exactly if it sees that call's
\* DeviceStatus upsert, and an insert_reading whose upsert fails leaves both
\* tables as they were and raises.
C15_InsertIsAllOrNothing ==
    [][ \A t \in Threads :
            /\ Ends(t, "st_devices") =>
                   \A id \in 1..MaxReadings :
                       (id < th'[t].at_count) <=> (id < th'[t].at_devices)
            /\ Ends(t, "ins_upsert") =>
                   /\ readings' = readings
                   /\ device_status' = device_status
                   /\ th'[t].result = "raised" ]_vars

\* the counts of source s in table ds (0 without a row)
BootCount(ds, s) == IF s \in DOMAIN ds THEN ds[s].boot_count ELSE 0
ErrorCount(ds, s) == IF s \in DOMAIN ds THEN ds[s].error_count ELSE 0

\* the update_device_status calls for source s that commit and return in
\* this step
Completing(s) ==
    {t \in Threads : Ends(t, "uds_commit") /\ th[t].source = s}

\* C16: the boot_count of a source grows by one with every completed
\* update_device_status(source, status, increment_boot=True) and changes in no
\* other step, whatever the interleaving with other calls of
\* update_device_status and insert_reading; likewise error_count with
\* increment_error.
C16_NoIncrementLost ==
    [][ \A s \in {SrcM1} :
            /\ BootCount(device_status', s) = BootCount(device_status, s)
                   + Cardinality({t \in Completing(s) : th[t].increment_boot})
            /\ ErrorCount(device_status', s) = ErrorCount(device_status, s)
                   + Cardinality({t \in Completing(s) : th[t].increment_error}) ]_vars

\* the stored readings of source s received between the days sd and ed
OfSource(s, sd, ed) ==
    {r \in readings :
        /\ r.source = s
        /\ sd.present => r.received_at \div TicksPerDay >= sd.day
        /\ ed.present => r.received_at \div TicksPerDay <= ed.day}

\* rows are readings of source s only, and all of them up to the limit n
OnlyAndAllOf(rows, s, n, sd, ed) ==
    /\ \A i \in 1..Len(rows) : rows[i] \in OfSource(s, sd, ed)
    /\ \A i, j \in 1..Len(rows) : rows[i] = rows[j] => i = j
    /\ Len(rows) = IF n < 0 \/ n > Cardinality(OfSource(s, sd, ed))
                   THEN Cardinality(OfSource(s, sd, ed)) ELSE n

\* C17 with the empty string among the sources: every source given that is
\* not "All" is filtered on
C17_EverySourceFilters ==
    \A s \in {Str0, SrcM1}, n \in QueryLimits, sd \in QueryDates, ed \in QueryDates,
       tie \in Ties :
        OnlyAndAllOf(GetReadings(readings, Field(s), n, sd, ed, tie), s, n, sd, ed)

\* C17: get_readings filters on every source that is not empty and not "All":
\* the result holds readings of that source only, and all of them up to the
\* limit; an empty source is no filter, like an absent one.
C17_NonEmptySourceFilters ==
    \A n \in QueryLimits, sd \in QueryDates, ed \in QueryDates, tie \in Ties :
        /\ OnlyAndAllOf(GetReadings(readings, Field(SrcM1), n, sd, ed, tie),
                        SrcM1, n, sd, ed)
        /\ GetReadings(readings, Field(Str0), n, sd, ed, tie)
               = GetReadings(readings, Absent, n, sd, ed, tie)

\* /api/data?source=m1&limit=1 answered with the reading of m1 while a
\* reading of another source is stored
C17_Witness ==
    /\ req.op = "data"
    /\ req.q.source = Field(SrcM1)
    /\ Len(resp.data) = 1
    /\ resp.data[1].source = SrcM1
    /\ \E r \in readings : r.source # SrcM1

====
